---- MODULE Spec2Model ----
(***************************************************************************)
(* Subscription Manager API (backend/main.py): the subscription handlers,  *)
(* the analytics recompute and the one-hour analytics cache.               *)
(*                                                                         *)
(* The committed database is the state.  A handler that commits twice      *)
(* (mutation, then analytics) is two steps, one per transaction: what a    *)
(* session flushed and never committed is rolled back when get_db closes   *)
(* the session.  A commit may fail (ok = FALSE); reads do not fail.        *)
(* Money is in whole units, time in seconds since the model's epoch,       *)
(* which lies NewYear seconds before 2024-01-01T00:00:00Z; the prices of   *)
(* the pattern table are in cents.                                         *)
(*                                                                         *)
(* The columns are those the handlers of main.py read and write.           *)
(* models.py declares no Subscription.auto_pay and no                      *)
(* Service.icon_source_url, which main.py names, and its BillingCycle has  *)
(* no weekly: a weekly cycle fails at the flush; the two missing columns   *)
(* are taken to exist in the mapping the deployed handlers run against.    *)
(***************************************************************************)
EXTENDS Integers, Sequences, FiniteSets, TLC

VARIABLES now, users, services, subscriptions, nextId, analytics, inflight, resp

vars == <<now, users, services, subscriptions, nextId, analytics, inflight, resp>>

\* ---------------------------------------------------------------- bounds
MaxTicks == 2
MaxSubs == 2
MaxRows == 3
MaxFullRows == 1
MaxSessions == 2

\* ------------------------------------------------------ program constants
CacheTTL == 3600

\* The clock moves in steps of one cache lifetime: a row is aged 0, exactly
\* CacheTTL (still fresh), or more (stale).
Tick == CacheTTL
MaxTime == MaxTicks * Tick

\* ----------------------------------------------------------------- inputs
Users == {"auth0|A", "auth0|B"}

Netflix == [name |-> "Netflix", category |-> "Entertainment"]

Gym == [name |-> "Gym", category |-> "Health"]

Spotify == [name |-> "Spotify", category |-> "Entertainment"]

Costs == {10, 25}

SubIds == 1..MaxSubs

\* An absent value (Python None) is the empty sequence, a present one <<v>>.
Opt(S) == {<<>>} \cup {<<x>> : x \in S}

\* Drafts as parse_subscription_text hands them to the NLP handlers, with a
\* service_name and a monthly_cost that may be null.
Drafts ==
    { [service_name |-> n, service_category |-> <<"Entertainment">>,
       monthly_cost |-> c] :
        n \in Opt({"Netflix"}), c \in Opt({10}) }

NullTime == 0 - 1

\* ------------------------------------------------------------------ clock
NewYear == Tick

MonthKey(t) == IF t < NewYear THEN 202312 ELSE 202401

MonthNames ==
    <<"Jan", "Feb", "Mar", "Apr", "May", "Jun",
      "Jul", "Aug", "Sep", "Oct", "Nov", "Dec">>

MonthName(key) == MonthNames[key % 100]

\* ------------------------------------------- calculate_and_cache_analytics
\* Mutant: the select forgets its user_id filter.
UserSubscriptions_all(subs, u) == subs

\* select(Subscription).where(Subscription.user_id == user_id)
UserSubscriptions(subs, u) == SelectSeq(subs, LAMBDA s : s.user_id = u)

RECURSIVE SumCost(_)
SumCost(ss) ==
    IF ss = <<>> THEN 0 ELSE Head(ss).monthly_cost + SumCost(Tail(ss))

ServiceCategory(svcs, sid) ==
    IF sid \in DOMAIN svcs THEN svcs[sid].category ELSE "Other"

\* Mutant: a category's total is assigned, not added to.
RECURSIVE CategoryFold_assign(_, _, _)
CategoryFold_assign(ss, svcs, acc) ==
    IF ss = <<>> THEN acc
    ELSE LET cat == ServiceCategory(svcs, Head(ss).service_id)
             acc1 == IF \E i \in DOMAIN acc : acc[i].category = cat
                     THEN acc
                     ELSE Append(acc, [category |-> cat, total |-> 0])
             k == CHOOSE i \in DOMAIN acc1 : acc1[i].category = cat
         IN  CategoryFold_assign(Tail(ss), svcs,
                          [acc1 EXCEPT ![k].total = Head(ss).monthly_cost])

\* Mutant: a new category goes to the front of the list.
RECURSIVE CategoryFold_prepend(_, _, _)
CategoryFold_prepend(ss, svcs, acc) ==
    IF ss = <<>> THEN acc
    ELSE LET cat == ServiceCategory(svcs, Head(ss).service_id)
             acc1 == IF \E i \in DOMAIN acc : acc[i].category = cat
                     THEN acc
                     ELSE <<[category |-> cat, total |-> 0]>> \o acc
             k == CHOOSE i \in DOMAIN acc1 : acc1[i].category = cat
         IN  CategoryFold_prepend(Tail(ss), svcs,
                          [acc1 EXCEPT ![k].total = @ + Head(ss).monthly_cost])

RECURSIVE CategoryFold(_, _, _)
CategoryFold(ss, svcs, acc) ==
    IF ss = <<>> THEN acc
    ELSE LET cat == ServiceCategory(svcs, Head(ss).service_id)
             acc1 == IF \E i \in DOMAIN acc : acc[i].category = cat
                     THEN acc
                     ELSE Append(acc, [category |-> cat, total |-> 0])
             k == CHOOSE i \in DOMAIN acc1 : acc1[i].category = cat
         IN  CategoryFold(Tail(ss), svcs,
                          [acc1 EXCEPT ![k].total = @ + Head(ss).monthly_cost])

CategoryBreakdown(ss, svcs) == CategoryFold(ss, svcs, <<>>)

\* Mutant: the months are sorted by their number, whatever the year.
RECURSIVE SortedKeys_bymonth(_)
SortedKeys_bymonth(S) ==
    IF S = {} THEN <<>>
    ELSE LET m == CHOOSE x \in S : \A y \in S : x % 100 <= y % 100
         IN  <<m>> \o SortedKeys_bymonth(S \ {m})

\* sorted(monthly_data.keys()) over the "%Y-%m" keys.
RECURSIVE SortedKeys(_)
SortedKeys(S) ==
    IF S = {} THEN <<>>
    ELSE LET m == CHOOSE x \in S : \A y \in S : x <= y
         IN  <<m>> \o SortedKeys(S \ {m})

MonthlyTrend(ss) ==
    IF ss = <<>> THEN <<>>
    ELSE LET sorted == SortedKeys({MonthKey(ss[i].created_at) : i \in DOMAIN ss})
         IN  [i \in DOMAIN sorted |->
                [month |-> MonthName(sorted[i]),
                 total |-> SumCost(SelectSeq(ss,
                              LAMBDA s : MonthKey(s.created_at) = sorted[i]))]]

\* Mutant: a year of weeks instead of months.
AnnualCost_weeks(monthly) == monthly * 52

AnnualCost(monthly) == monthly * 12

Recompute(subs, svcs, u, t) ==
    LET ss == UserSubscriptions(subs, u)
    IN  [user_id |-> u,
         total_monthly_cost |-> SumCost(ss),
         total_annual_cost |-> AnnualCost(SumCost(ss)),
         service_count |-> Len(ss),
         category_breakdown |-> CategoryBreakdown(ss, svcs),
         monthly_trend |-> MonthlyTrend(ss),
         last_calculated |-> t]

\* The rows of user_analytics a select by user_id returns.
AnalyticsRows(rows, u) == {r \in rows : r.user_id = u}

\* scalar_one_or_none over at most one row.
OneOrNone(S) == IF S = {} THEN <<>> ELSE <<CHOOSE r \in S : TRUE>>

\* Mutant: an existing row keeps its JSON columns.
StoreAnalytics_keepjson(rows, u, snap) ==
    IF AnalyticsRows(rows, u) = {}
    THEN rows \cup {snap}
    ELSE LET old == CHOOSE r \in AnalyticsRows(rows, u) : TRUE
         IN  (rows \ AnalyticsRows(rows, u)) \cup
                {[snap EXCEPT !.category_breakdown = old.category_breakdown,
                              !.monthly_trend = old.monthly_trend]}

\* Find-or-create, then overwrite the row in place.
StoreAnalytics(rows, u, snap) == (rows \ AnalyticsRows(rows, u)) \cup {snap}

\* ------------------------------------------------------------ get_analytics
\* Mutant: the cache expires at exactly one hour (>= for >).
ShouldRefresh_inclusive(force, found, t) ==
    \/ force
    \/ found = <<>>
    \/ found[1].last_calculated = NullTime
    \/ t - found[1].last_calculated >= CacheTTL

\* Mutant: the age of the row is not looked at.
ShouldRefresh_noexpiry(force, found, t) ==
    \/ force
    \/ found = <<>>
    \/ found[1].last_calculated = NullTime

ShouldRefresh(force, found, t) ==
    \/ force
    \/ found = <<>>
    \/ found[1].last_calculated = NullTime
    \/ t - found[1].last_calculated > CacheTTL

\* Mutant: the one-hour rule is consulted before every recompute.
RefreshSnapshot_ifstale(u) ==
    IF ShouldRefresh(FALSE, OneOrNone(AnalyticsRows(analytics, u)), now)
    THEN analytics' = StoreAnalytics(analytics, u,
                         Recompute(subscriptions, services, u, now))
    ELSE UNCHANGED analytics

\* calculate_and_cache_analytics followed by the commit that stores its row.
RefreshSnapshot(u) ==
    analytics' = StoreAnalytics(analytics, u, Recompute(subscriptions, services, u, now))

\* analytics.last_calculated as the handler read it, if it found a row.
LastCalculated(found) == IF found = <<>> THEN <<>> ELSE <<found[1].last_calculated>>

Body(row) ==
    [total_monthly_cost |-> row.total_monthly_cost,
     total_annual_cost |-> row.total_annual_cost,
     category_breakdown |-> row.category_breakdown,
     monthly_trend |-> row.monthly_trend,
     service_count |-> row.service_count]

\* ---------------------------------------------------------------- responses
MutationOps == {"create", "update", "delete", "nlp", "nlp-multimodal"}

NoResp ==
    [op |-> "none", user |-> "", status |-> 0, success |-> FALSE, detail |-> "",
     sub_id |-> 0, force_refresh |-> FALSE, prior |-> <<>>, recomputed |-> FALSE,
     body |-> <<>>, mutated |-> FALSE, follows |-> FALSE, request |-> <<>>,
     parsed_data |-> <<>>, llm_calls |-> 0]

Response(op, u, status, detail) ==
    [NoResp EXCEPT !.op = op, !.user = u, !.status = status,
                   !.success = (status = 200), !.detail = detail]

\* A request whose handler has not answered yet (it is between its commits).
Pending(op, u, sid) == [NoResp EXCEPT !.op = op, !.user = u, !.sub_id = sid]

\* Mutant: a subscription that exists but is another user's is refused as
\* forbidden instead of not found.
NotFound_leaky(op, u, sid) ==
    IF \E i \in DOMAIN subscriptions : subscriptions[i].id = sid
    THEN [Response(op, u, 403, "Forbidden") EXCEPT !.sub_id = sid]
    ELSE [Response(op, u, 404, "Subscription not found") EXCEPT !.sub_id = sid]

NotFound(op, u, sid) ==
    [Response(op, u, 404, "Subscription not found") EXCEPT !.sub_id = sid]

ServerError(op, u, sid) ==
    [Response(op, u, 500, "Internal Server Error") EXCEPT !.sub_id = sid]

\* ------------------------------------------------------------------- state
Init ==
    /\ now = 0
    /\ users = {}
    /\ services = <<>>
    /\ subscriptions = <<>>
    /\ nextId = 1
    /\ analytics = {}
    /\ inflight = <<>>
    /\ resp = NoResp

\* Time passes between requests.
Advance ==
    /\ now + Tick <= MaxTime
    /\ now' = now + Tick
    /\ resp' = NoResp
    /\ UNCHANGED <<users, services, subscriptions, nextId, analytics, inflight>>

\* GET /analytics: one transaction; it commits only on the refresh path.
GetAnalytics(u, force, ok) ==
    LET found == OneOrNone(AnalyticsRows(analytics, u))
        base == [Response("analytics", u, 200, "") EXCEPT
                    !.force_refresh = force, !.prior = LastCalculated(found),
                    !.follows = (resp.mutated /\ resp.user = u)]
    IN  /\ IF ShouldRefresh(force, found, now)
           THEN IF ok
                THEN /\ RefreshSnapshot(u)
                     /\ users' = users \cup {u}
                     /\ resp' = [base EXCEPT !.recomputed = TRUE,
                           !.body = <<Body(OneOrNone(AnalyticsRows(analytics', u))[1])>>]
                ELSE /\ resp' = [base EXCEPT !.status = 500, !.success = FALSE,
                                             !.detail = "Internal Server Error"]
                     /\ UNCHANGED <<analytics, users>>
           ELSE /\ resp' = [base EXCEPT !.body = <<Body(found[1])>>]
                /\ UNCHANGED <<analytics, users>>
        /\ UNCHANGED <<now, services, subscriptions, nextId, inflight>>

\* The select by Service.name of the create handlers.
ServicesNamed(svcs, name) == {i \in DOMAIN svcs : svcs[i].name = name}

\* Service get-or-create: the table and the id of the service to reference.
ResolveService(svcs, name, category) ==
    IF ServicesNamed(svcs, name) = {}
    THEN [services |-> Append(svcs, [name |-> name, category |-> category]),
          id |-> Len(svcs) + 1]
    ELSE [services |-> svcs, id |-> CHOOSE i \in ServicesNamed(svcs, name) : TRUE]

NewSubscription(id, u, service_id, monthly_cost, t) ==
    [id |-> id, user_id |-> u, service_id |-> service_id,
     monthly_cost |-> monthly_cost, created_at |-> t]

\* The first transaction of a creating handler, up to its first commit:
\* the service is found or created and the row is added under a new id.
InsertRow(op, u, name, category, row) ==
    LET got == ResolveService(services, name, category)
    IN  /\ services' = got.services
        /\ subscriptions' = Append(subscriptions,
               [row EXCEPT !.id = nextId, !.service_id = got.id])
        /\ nextId' = nextId + 1
        /\ users' = users \cup {u}
        /\ inflight' = Append(inflight, [op |-> op, user |-> u, sub_id |-> nextId])
        /\ resp' = Pending(op, u, nextId)
        /\ UNCHANGED <<now, analytics>>

\* The same with a row that carries the monthly_cost column alone.
InsertSubscription(op, u, name, category, monthly_cost) ==
    InsertRow(op, u, name, category, NewSubscription(nextId, u, 0, monthly_cost, now))

Rejected(r) ==
    /\ resp' = r
    /\ UNCHANGED <<now, users, services, subscriptions, nextId, analytics, inflight>>

\* POST /subscriptions, to the first commit.
CreateSubscription(u, svc, monthly_cost, ok) ==
    IF svc = <<>>
    THEN Rejected(Response("create", u, 422, "Service information is required"))
    ELSE /\ nextId <= MaxSubs
         /\ IF Cardinality(ServicesNamed(services, svc[1].name)) > 1 \/ ~ok
            THEN Rejected(ServerError("create", u, 0))
            ELSE InsertSubscription("create", u, svc[1].name, svc[1].category,
                                    monthly_cost)

\* Mutant: the select filters on the id alone.
OwnSubscription_anyuser(subs, sid, u) ==
    {i \in DOMAIN subs : subs[i].id = sid}

\* The select by Subscription.id and Subscription.user_id of update and delete.
OwnSubscription(subs, sid, u) ==
    {i \in DOMAIN subs : subs[i].id = sid /\ subs[i].user_id = u}

ApplyUpdate(sub, monthly_cost) ==
    [sub EXCEPT !.monthly_cost = IF monthly_cost = <<>> THEN @ ELSE monthly_cost[1]]

\* PUT /subscriptions/{id}, to the first commit.
UpdateSubscription(u, sid, monthly_cost, ok) ==
    LET mine == OwnSubscription(subscriptions, sid, u)
    IN  IF mine = {}
        THEN Rejected(NotFound("update", u, sid))
        ELSE /\ IF ok
                THEN LET i == CHOOSE i \in mine : TRUE
                     IN  /\ subscriptions' = [subscriptions EXCEPT
                                ![i] = ApplyUpdate(@, monthly_cost)]
                         /\ users' = users \cup {u}
                         /\ inflight' = Append(inflight,
                                [op |-> "update", user |-> u, sub_id |-> sid])
                         /\ resp' = Pending("update", u, sid)
                         /\ UNCHANGED <<now, services, nextId, analytics>>
                ELSE Rejected(ServerError("update", u, sid))

\* Mutant: the delete removes the oldest row, whichever was looked up.
RemoveAt_oldest(seq, i) == Tail(seq)

RemoveAt(seq, i) == SubSeq(seq, 1, i - 1) \o SubSeq(seq, i + 1, Len(seq))

\* DELETE /subscriptions/{id}, to the first commit.
DeleteSubscription(u, sid, ok) ==
    LET mine == OwnSubscription(subscriptions, sid, u)
    IN  IF mine = {}
        THEN Rejected(NotFound("delete", u, sid))
        ELSE /\ IF ok
                THEN /\ subscriptions' = RemoveAt(subscriptions, CHOOSE i \in mine : TRUE)
                     /\ users' = users \cup {u}
                     /\ inflight' = Append(inflight,
                            [op |-> "delete", user |-> u, sub_id |-> sid])
                     /\ resp' = Pending("delete", u, sid)
                     /\ UNCHANGED <<now, services, nextId, analytics>>
                ELSE Rejected(ServerError("delete", u, sid))

NlpOp(multimodal) == IF multimodal THEN "nlp-multimodal" ELSE "nlp"

\* The NLP handlers answer 200 with success = FALSE instead of failing.
NlpFailure(op, u, message) ==
    [Response(op, u, 200, message) EXCEPT !.success = FALSE]

\* not parsed_data.get("service_name"): the name is null or empty.
NoName(draft) == draft.service_name = <<>> \/ draft.service_name[1] = ""

\* not parsed_data.get("monthly_cost"): the cost is null or zero.
NoCost(draft) == draft.monthly_cost = <<>> \/ draft.monthly_cost[1] = 0

\* Mutant: the cost is looked at before the service name.
NlpRefusal_costfirst(draft, multimodal) ==
    IF draft = <<>> \/ NoCost(draft[1])
    THEN IF multimodal
         THEN "Unable to determine monthly cost from image, please specify the amount"
         ELSE "Unable to determine monthly cost, please specify the amount"
    ELSE IF NoName(draft[1])
    THEN IF multimodal
         THEN "Unable to parse subscription information from image, please provide more details"
         ELSE "Unable to parse subscription information, please provide more details"
    ELSE ""

\* The message of the soft failure the NLP handlers answer a draft with, ""
\* when they go on to create the subscription.
NlpRefusal(draft, multimodal) ==
    IF draft = <<>> \/ NoName(draft[1])
    THEN IF multimodal
         THEN "Unable to parse subscription information from image, please provide more details"
         ELSE "Unable to parse subscription information, please provide more details"
    ELSE IF NoCost(draft[1])
    THEN IF multimodal
         THEN "Unable to determine monthly cost from image, please specify the amount"
         ELSE "Unable to determine monthly cost, please specify the amount"
    ELSE ""

\* Mutant: the soft failure drops the draft.
SoftFailure_discard(op, u, draft, multimodal) ==
    NlpFailure(op, u, NlpRefusal(draft, multimodal))

\* The soft failure: the draft goes back to the caller as parsed_data.
SoftFailure(op, u, draft, multimodal) ==
    [NlpFailure(op, u, NlpRefusal(draft, multimodal)) EXCEPT !.parsed_data = draft]

\* Dates are in seconds.
Day == 86400

\* The dates the drawn strings are: the seconds of the day's midnight, none
\* for a string that is no ISO date.
IsoDates ==
    [s \in {"2024-01-01", "2024-02-01", "2024-03-15"} |->
        CASE s = "2024-01-01" -> NewYear
          [] s = "2024-02-01" -> NewYear + 31 * Day
          [] s = "2024-03-15" -> NewYear + 74 * Day]

\* datetime.fromisoformat: <<>> when it raises.
FromIsoFormat(str) == IF str \in DOMAIN IsoDates THEN <<IsoDates[str]>> ELSE <<>>

\* What makes the NLP handlers raise between the soft failures and the
\* commit: a service to insert with a null category, a number of trial days
\* that is null compared with 0, a payment_date that is null or no ISO date.
NlpRaises(svcs, draft) ==
    \/ ServicesNamed(svcs, draft.service_name[1]) = {} /\ draft.service_category = <<>>
    \/ draft.is_trial /\ draft.trial_duration_days = <<>>
    \/ draft.payment_date = <<>>
    \/ FromIsoFormat(draft.payment_date[1]) = <<>>

\* Mutant: the trial dates are set for any draft that is a trial.
NlpColumns_nodays(u, draft, t) ==
    [id |-> 0, user_id |-> u, service_id |-> 0,
     cost |-> draft.monthly_cost[1], billing_cycle |-> "monthly",
     monthly_cost |-> draft.monthly_cost[1], is_trial |-> draft.is_trial,
     trial_start_date |-> IF draft.is_trial THEN <<t>> ELSE <<>>,
     trial_end_date |-> IF draft.is_trial
                        THEN <<t + draft.trial_duration_days[1] * Day>> ELSE <<>>,
     trial_duration_days |-> draft.trial_duration_days,
     created_at |-> t, updated_at |-> <<>>]

\* Subscription(...) of the NLP handlers: the monthly cost is the cost, the
\* cycle is monthly, the trial dates are derived from the current time.
NlpColumns(u, draft, t) ==
    LET trial == draft.is_trial /\ draft.trial_duration_days[1] > 0
    IN  [id |-> 0, user_id |-> u, service_id |-> 0,
         cost |-> draft.monthly_cost[1], billing_cycle |-> "monthly",
         monthly_cost |-> draft.monthly_cost[1], is_trial |-> draft.is_trial,
         trial_start_date |-> IF trial THEN <<t>> ELSE <<>>,
         trial_end_date |-> IF trial THEN <<t + draft.trial_duration_days[1] * Day>>
                                     ELSE <<>>,
         trial_duration_days |-> draft.trial_duration_days,
         created_at |-> t, updated_at |-> <<>>]

\* POST /subscriptions/nlp and /subscriptions/nlp-multimodal, to the first
\* commit; draft is what parse_subscription_text returned.  The row carries
\* every column (columns) or the monthly_cost alone.
CreateFromDraft(u, draft, multimodal, ok, columns) ==
    LET op == NlpOp(multimodal)
    IN  IF NlpRefusal(draft, multimodal) # ""
        THEN Rejected(SoftFailure(op, u, draft, multimodal))
        ELSE /\ nextId <= (IF columns THEN MaxFullRows ELSE MaxSubs)
             /\ IF \/ Cardinality(ServicesNamed(services, draft[1].service_name[1])) > 1
                   \/ (columns /\ NlpRaises(services, draft[1]))
                   \/ ~ok
                THEN Rejected(NlpFailure(op, u,
                        IF multimodal THEN "Error processing image and text"
                                      ELSE "Error processing request"))
                ELSE InsertRow(op, u, draft[1].service_name[1],
                        draft[1].service_category[1],
                        IF columns
                        THEN NlpColumns(u, draft[1], now)
                        ELSE NewSubscription(nextId, u, 0, draft[1].monthly_cost[1], now))

CreateFromNlp(u, draft, multimodal, ok) == CreateFromDraft(u, draft, multimodal, ok, FALSE)

CreateFromNlpColumns(u, draft, multimodal, ok) ==
    CreateFromDraft(u, draft, multimodal, ok, TRUE)

SuccessMessage(op) ==
    CASE op = "delete" -> "Subscription deleted successfully"
      [] op = "nlp" -> "Subscription information added successfully"
      [] op = "nlp-multimodal" ->
            "Subscription information extracted from image and added successfully"
      [] OTHER -> ""

FailureResponse(op, u) ==
    CASE op = "nlp" -> NlpFailure(op, u, "Error processing request")
      [] op = "nlp-multimodal" -> NlpFailure(op, u, "Error processing image and text")
      [] OTHER -> ServerError(op, u, 0)

\* The second transaction of a mutating handler: recompute, store, commit.
RecomputeAfterMutation(i, ok) ==
    /\ i \in DOMAIN inflight
    /\ LET r == inflight[i]
           found == OneOrNone(AnalyticsRows(analytics, r.user))
       IN  IF ok
           THEN /\ RefreshSnapshot(r.user)
                /\ resp' = [Response(r.op, r.user, 200, SuccessMessage(r.op)) EXCEPT
                               !.sub_id = r.sub_id, !.prior = LastCalculated(found),
                               !.recomputed = TRUE, !.mutated = TRUE]
           ELSE /\ resp' = [FailureResponse(r.op, r.user) EXCEPT
                               !.sub_id = r.sub_id, !.prior = LastCalculated(found),
                               !.mutated = TRUE]
                /\ UNCHANGED analytics
    /\ inflight' = RemoveAt(inflight, i)
    /\ UNCHANGED <<now, users, services, subscriptions, nextId>>

\* A request of the sequential server: it starts when no handler is between
\* its two commits.
Idle == inflight = <<>>

\* The requests users U can make about the services S.
Requests(U, S) ==
    \/ Idle /\ \E u \in U, force \in BOOLEAN, ok \in BOOLEAN : GetAnalytics(u, force, ok)
    \/ Idle /\ \E u \in U, svc \in Opt(S), c \in Costs, ok \in BOOLEAN :
          CreateSubscription(u, svc, c, ok)
    \/ Idle /\ \E u \in U, sid \in SubIds, c \in Opt(Costs), ok \in BOOLEAN :
          UpdateSubscription(u, sid, c, ok)
    \/ Idle /\ \E u \in U, sid \in SubIds, ok \in BOOLEAN : DeleteSubscription(u, sid, ok)
    \/ Idle /\ \E u \in U, d \in Opt(Drafts), m \in BOOLEAN, ok \in BOOLEAN :
          CreateFromNlp(u, d, m, ok)
    \/ \E i \in DOMAIN inflight, ok \in BOOLEAN : RecomputeAfterMutation(i, ok)

\* One user, one service, the clock running: the cache and the mutations.
Next == Advance \/ Requests({"auth0|A"}, {Netflix})

Spec == Init /\ [][Next]_vars

\* Two users at a fixed time: ownership.
NextOwner == Requests(Users, {Netflix})

SpecOwner == Init /\ [][NextOwner]_vars

\* The analytics of one user over every table of at most MaxRows
\* subscriptions, in whatever order the select returns them, with no row yet
\* or a row left from other subscriptions.
Catalogue == <<Netflix, Gym, Spotify>>

RowChoices ==
    {NewSubscription(0, "auth0|A", sid, c, t) :
        sid \in DOMAIN Catalogue, c \in Costs, t \in {0, Tick}}

Tables ==
    UNION {{[i \in 1..n |-> [f[i] EXCEPT !.id = i]] : f \in [1..n -> RowChoices]} :
             n \in 0..MaxRows}

StaleRow ==
    Recompute(<<NewSubscription(1, "auth0|A", 2, 25, 0)>>, Catalogue, "auth0|A", 0)

InitAggregate ==
    /\ now = Tick
    /\ users = {"auth0|A"}
    /\ services = Catalogue
    /\ subscriptions \in Tables
    /\ nextId = Len(subscriptions) + 1
    /\ analytics \in {{}, {StaleRow}}
    /\ inflight = <<>>
    /\ resp = NoResp

NextAggregate ==
    \E force \in BOOLEAN, ok \in BOOLEAN : GetAnalytics("auth0|A", force, ok)

SpecAggregate == InitAggregate /\ [][NextAggregate]_vars

\* ----------------------------------------------------------- get_subscriptions
\* The orders in which a select ordered by created_at descending may return
\* the rows ss: rows created at the same time come in any order.
Listings(ss) ==
    {p \in [DOMAIN ss -> DOMAIN ss] :
        /\ \A i, j \in DOMAIN ss : i # j => p[i] # p[j]
        /\ \A i, j \in DOMAIN ss :
              i < j => ss[p[i]].created_at >= ss[p[j]].created_at}

\* GET /subscriptions: the caller's rows; nothing is committed.
GetSubscriptions(u) ==
    LET ss == UserSubscriptions(subscriptions, u)
    IN  /\ \E p \in Listings(ss) :
              resp' = [Response("list", u, 200, "") EXCEPT
                          !.body = <<[i \in DOMAIN ss |-> ss[p[i]]]>>]
        /\ UNCHANGED <<now, users, services, subscriptions, nextId, analytics,
                       inflight>>

\* One user creating, listing, updating and deleting.
NextLifecycle ==
    \/ Requests({"auth0|A"}, {Netflix})
    \/ Idle /\ GetSubscriptions("auth0|A")

SpecLifecycle == Init /\ [][NextLifecycle]_vars

\* Two users creating, updating, deleting, listing and reading analytics, one
\* request at a time.
NextIsolation ==
    \/ Idle /\ \E u \in Users, force \in BOOLEAN : GetAnalytics(u, force, TRUE)
    \/ Idle /\ \E u \in Users, c \in Costs : CreateSubscription(u, <<Netflix>>, c, TRUE)
    \/ Idle /\ \E u \in Users, sid \in SubIds, c \in Costs :
          UpdateSubscription(u, sid, <<c>>, TRUE)
    \/ Idle /\ \E u \in Users, sid \in SubIds : DeleteSubscription(u, sid, TRUE)
    \/ Idle /\ \E u \in Users : GetSubscriptions(u)
    \/ \E i \in DOMAIN inflight, ok \in BOOLEAN : RecomputeAfterMutation(i, ok)

SpecIsolation == Init /\ [][NextIsolation]_vars

\* ------------------------------------------------- parse_subscription_text
\* The first rows of service_patterns, in dictionary order; prices in cents.
PatternTable ==
    <<[pattern |-> "netflix", name |-> "Netflix", category |-> "Entertainment",
       default_cost |-> 1599],
      [pattern |-> "github", name |-> "GitHub", category |-> "Development",
       default_cost |-> 700]>>

\* A text is what the matching looks at: the known service names it
\* contains, the price it opens with if any, and its trial wording.
Texts ==
    {[mentions |-> ms, price |-> p, trial |-> t] :
        ms \in SUBSET {"netflix", "github"}, p \in Opt({1000}),
        t \in {"", "free trial", "free trial 7 days"}}

\* re.search(r'\$?(\d+\.?\d*)', text): the first number of the text, be it
\* the price or the number of days of the trial.
FirstNumber(text) ==
    IF text.price # <<>> THEN text.price
    ELSE IF text.trial = "free trial 7 days" THEN <<7>> ELSE <<>>

\* _get_default_payment_date, and the same lines of
\* _validate_and_normalize: the first day of the month after t's.
DefaultPaymentDate(t) == IF MonthKey(t) = 202312 THEN "2024-01-01" ELSE "2024-02-01"

\* _try_pattern_based_parsing: the draft of the first pattern the text
\* contains, or none.
TryPatternBasedParsing(text, t) ==
    LET hits == {i \in DOMAIN PatternTable : PatternTable[i].pattern \in text.mentions}
    IN  IF hits = {} THEN <<>>
        ELSE LET info == PatternTable[CHOOSE i \in hits : \A j \in hits : i <= j]
             IN  <<[service_name |-> <<info.name>>,
                    service_category |-> <<info.category>>,
                    account |-> "Default Account",
                    monthly_cost |-> IF FirstNumber(text) # <<>>
                                     THEN FirstNumber(text) ELSE <<info.default_cost>>,
                    payment_date |-> <<DefaultPaymentDate(t)>>,
                    is_trial |-> text.trial # "",
                    trial_duration_days |->
                        IF text.trial = "" THEN <<0>>
                        ELSE IF text.trial = "free trial 7 days" THEN <<7>> ELSE <<30>>]>>

\* str.strip() on the strings drawn.
Strip(str) ==
    CASE str = "  " -> ""
      [] str = " Hulu " -> "Hulu"
      [] str = " me@x.io " -> "me@x.io"
      [] OTHER -> str

\* A JSON number, or a JSON string where a number is expected.
JsonNumber(n) == [type |-> "number", text |-> "", value |-> n]
JsonString(str) == [type |-> "string", text |-> str, value |-> 0]

\* float(x): <<>> when it raises.
Float(x) ==
    IF x.type = "number" THEN <<x.value>>
    ELSE IF x.text = "800" THEN <<800>> ELSE <<>>

\* The JSON objects the model may answer with.  <<>> is null or no such
\* key; for service_category <<>> is no such key and <<<<>>>> is null; for
\* trial_duration_days <<>> is null, and no such key is <<0>>.
RawReplies ==
    {[service_name |-> n, service_category |-> c, account |-> a,
      monthly_cost |-> p, payment_date |-> pd, is_trial |-> t,
      trial_duration_days |-> d] :
        n \in Opt({"", "  ", " Hulu "}), c \in Opt(Opt({"Streaming"})),
        a \in Opt({"", "  ", " me@x.io "}),
        p \in Opt({JsonNumber(800), JsonString("800"), JsonString("abc")}),
        pd \in Opt({"", "soon", "2024-03-15"}),
        t \in BOOLEAN, d \in Opt({0, 30})}

\* The replies the handlers are run on.
LlmReplies ==
    {r \in RawReplies :
        /\ r.service_name \in Opt({"  ", " Hulu "})
        /\ r.service_category \in {<<>>, <<<<"Streaming">>>>}
        /\ r.account = <<>>
        /\ r.monthly_cost \in Opt({JsonNumber(800)})
        /\ r.payment_date \in Opt({"2024-03-15"})
        /\ ~r.is_trial /\ r.trial_duration_days = <<0>>}

\* _validate_and_normalize at time t.
ValidateAndNormalize(data, t) ==
    [service_name |->
        IF data.service_name = <<>> \/ data.service_name[1] = "" THEN <<>>
        ELSE <<Strip(data.service_name[1])>>,
     service_category |->
        IF data.service_category = <<>> THEN <<"Other">> ELSE data.service_category[1],
     account |->
        IF data.account = <<>> \/ data.account[1] = "" THEN "Default Account"
        ELSE Strip(data.account[1]),
     monthly_cost |->
        IF data.monthly_cost = <<>> THEN <<>> ELSE Float(data.monthly_cost[1]),
     payment_date |->
        IF data.payment_date = <<>> \/ data.payment_date[1] = "" THEN <<>>
        ELSE IF FromIsoFormat(data.payment_date[1]) # <<>> THEN data.payment_date
        ELSE <<DefaultPaymentDate(t)>>,
     is_trial |-> data.is_trial,
     trial_duration_days |-> data.trial_duration_days]

\* How the one call to the completion API can end: it times out, raises,
\* answers with another status than 200, with no {...} in the content, with
\* braces that are not JSON, or with a JSON object.
LlmFailures == {"timeout", "raises", "status", "no_json", "bad_json"}

\* What parse_subscription_text returns after the call.
LlmDraft(outcome, reply, t) ==
    IF outcome \in LlmFailures THEN <<>> ELSE <<ValidateAndNormalize(reply, t)>>

\* Mutant: the model is asked whatever the patterns found.
AfterPatterns_always(text) == "llm"

\* Where parse_subscription_text goes after the patterns: it returns the
\* draft of a hit, and calls the model on a miss.
AfterPatterns(text) ==
    IF TryPatternBasedParsing(text, now) # <<>> THEN "pattern" ELSE "llm"

Extracting == resp.op = "extract"

\* An NLP request arrives and the patterns are tried on its text.
ParseSubscriptionText(u, text, multimodal) ==
    /\ ~Extracting
    /\ resp' = [NoResp EXCEPT !.op = "extract", !.user = u,
                    !.request = <<[text |-> text, multimodal |-> multimodal]>>,
                    !.detail = AfterPatterns(text),
                    !.parsed_data = TryPatternBasedParsing(text, now)]
    /\ UNCHANGED <<now, users, services, subscriptions, nextId, analytics, inflight>>

\* The call to the completion API ends.
LlmResponds(outcome, reply) ==
    /\ Extracting /\ resp.detail = "llm"
    /\ resp' = [resp EXCEPT !.llm_calls = @ + 1,
                    !.detail = IF outcome \in LlmFailures THEN outcome ELSE "reply",
                    !.parsed_data = LlmDraft(outcome, reply, now)]
    /\ UNCHANGED <<now, users, services, subscriptions, nextId, analytics, inflight>>

\* The handler goes on with what parse_subscription_text returned.
HandleDraft(ok) ==
    /\ Extracting /\ resp.detail # "llm"
    /\ CreateFromNlpColumns(resp.user, resp.parsed_data,
                            resp.request[1].multimodal, ok)

NextNlp ==
    \/ Idle /\ \E text \in Texts, m \in BOOLEAN :
          ParseSubscriptionText("auth0|A", text, m)
    \/ \E outcome \in LlmFailures \cup {"reply"}, reply \in LlmReplies :
          LlmResponds(outcome, reply)
    \/ \E ok \in BOOLEAN : HandleDraft(ok)
    \/ \E i \in DOMAIN inflight, ok \in BOOLEAN : RecomputeAfterMutation(i, ok)

SpecNlp == Init /\ [][NextNlp]_vars

\* Drafts of the extraction pipeline with their trial fields.
TrialDrafts ==
    {[service_name |-> <<"Netflix">>, service_category |-> <<"Entertainment">>,
      account |-> "Default Account", monthly_cost |-> <<10>>,
      payment_date |-> <<"2024-02-01">>, is_trial |-> i,
      trial_duration_days |-> d] :
        i \in BOOLEAN, d \in Opt({0, 7})}

\* The NLP handlers on the drafts with trial fields, the clock running.
ParseReturns(u, draft, multimodal) ==
    /\ ~Extracting
    /\ resp' = [NoResp EXCEPT !.op = "extract", !.user = u,
                    !.request = <<[text |-> <<>>, multimodal |-> multimodal]>>,
                    !.detail = "returned", !.parsed_data = draft]
    /\ UNCHANGED <<now, users, services, subscriptions, nextId, analytics, inflight>>

NextTrial ==
    \/ Advance
    \/ Idle /\ \E d \in Opt(TrialDrafts), m \in BOOLEAN : ParseReturns("auth0|A", d, m)
    \/ \E ok \in BOOLEAN : HandleDraft(ok)
    \/ \E i \in DOMAIN inflight, ok \in BOOLEAN : RecomputeAfterMutation(i, ok)

SpecTrial == Init /\ [][NextTrial]_vars

\* Validation alone, on every reply drawn, in December and in January.
InitValidate ==
    /\ now \in {0, NewYear}
    /\ users = {}
    /\ services = <<>>
    /\ subscriptions = <<>>
    /\ nextId = 1
    /\ analytics = {}
    /\ inflight = <<>>
    /\ \E reply \in RawReplies :
          resp = [NoResp EXCEPT !.op = "reply", !.request = <<reply>>]

ValidateReply ==
    /\ resp.op = "reply"
    /\ resp' = [resp EXCEPT !.op = "validated",
                    !.parsed_data = <<ValidateAndNormalize(resp.request[1], now)>>]
    /\ UNCHANGED <<now, users, services, subscriptions, nextId, analytics, inflight>>

SpecValidate == InitValidate /\ [][ValidateReply]_vars

\* ------------------------------------------------------ concurrent requests
\* Requests that overlap, statement by statement.  Every request has a
\* session of its own (get_db); a session sees what is committed when its
\* statement runs, and what it has flushed is seen by no other session
\* before it commits.  A flush that is followed at once by its commit is
\* one step: a statement of another session that it conflicts with waits
\* for the commit, any other commutes with it.
Session(op, u, sid, monthly_cost, force) ==
    [op |-> op, user |-> u, sub_id |-> sid, monthly_cost |-> monthly_cost,
     force_refresh |-> force, pc |-> "user", txn |-> 1, checked |-> 0,
     target |-> <<>>, found |-> <<>>, snap |-> <<>>, lock |-> FALSE]

\* The handler is entered.
Begin(op, u, sid, monthly_cost, force) ==
    /\ Len(inflight) < MaxSessions
    /\ inflight' = Append(inflight, Session(op, u, sid, monthly_cost, force))
    /\ UNCHANGED <<now, users, services, subscriptions, nextId, analytics, resp>>

\* The handler returns or raises: the session is closed, and what it had
\* not committed is rolled back.
Close(i, r) ==
    /\ inflight' = RemoveAt(inflight, i)
    /\ resp' = r

\* get_or_create_user of a known user: the UPDATE of last_login is flushed,
\* and holds the lock of the user's row until the session commits or is
\* closed; it waits while another session holds it.
GetOrCreateUser(i) ==
    LET s == inflight[i]
    IN  /\ s.pc = "user" /\ s.user \in users
        /\ \A j \in DOMAIN inflight : ~(inflight[j].lock /\ inflight[j].user = s.user)
        /\ inflight' = [inflight EXCEPT ![i] =
              [s EXCEPT !.lock = TRUE,
                        !.pc = CASE s.op = "analytics" -> "cached"
                                 [] s.op \in {"create", "nlp"} -> "service"
                                 [] OTHER -> "lookup"]]
        /\ UNCHANGED <<now, users, services, subscriptions, nextId, analytics, resp>>

\* Mutant: the session commits once the row is looked up.
LookedUp_commits(s, row) ==
    [s EXCEPT !.target = <<row>>, !.checked = s.txn, !.txn = s.txn + 1,
              !.lock = FALSE, !.pc = "mutate"]

\* The session holds the row its select returned; nothing is committed.
LookedUp(s, row) ==
    [s EXCEPT !.target = <<row>>, !.checked = s.txn, !.pc = "mutate"]

\* The select by id and user_id of update and delete, and the 404.
Lookup(i) ==
    LET s == inflight[i]
        mine == OwnSubscription(subscriptions, s.sub_id, s.user)
    IN  /\ s.pc = "lookup"
        /\ IF mine = {}
           THEN Close(i, NotFound(s.op, s.user, s.sub_id))
           ELSE /\ inflight' = [inflight EXCEPT ![i] =
                      LookedUp(s, subscriptions[CHOOSE k \in mine : TRUE])]
                /\ UNCHANGED resp
        /\ UNCHANGED <<now, users, services, subscriptions, nextId, analytics>>

\* The rows an UPDATE or DELETE by primary key matches.
RowsWithId(subs, sid) == {k \in DOMAIN subs : subs[k].id = sid}

\* The mutation and the first commit.  An UPDATE that matches no row raises
\* (StaleDataError), a DELETE that matches none only warns.
Mutate(i, ok) ==
    LET s == inflight[i]
        rows == RowsWithId(subscriptions, s.sub_id)
        next == [s EXCEPT !.txn = s.txn + 1, !.lock = FALSE, !.pc = "calculate"]
    IN  /\ s.pc = "mutate"
        /\ IF ~ok \/ (s.op = "update" /\ rows = {})
           THEN /\ Close(i, ServerError(s.op, s.user, s.sub_id))
                /\ UNCHANGED subscriptions
           ELSE /\ subscriptions' =
                      IF rows = {} THEN subscriptions
                      ELSE LET k == CHOOSE k \in rows : TRUE
                           IN  IF s.op = "update"
                               THEN [subscriptions EXCEPT
                                        ![k] = ApplyUpdate(@, s.monthly_cost)]
                               ELSE RemoveAt(subscriptions, k)
                /\ inflight' = [inflight EXCEPT ![i] = next]
                /\ UNCHANGED resp
        /\ UNCHANGED <<now, users, services, nextId, analytics>>

\* get_analytics reads the cache, and answers from it unless it must refresh.
Cached(i) ==
    LET s == inflight[i]
        found == OneOrNone(AnalyticsRows(analytics, s.user))
    IN  /\ s.pc = "cached"
        /\ IF ShouldRefresh(s.force_refresh, found, now)
           THEN /\ inflight' = [inflight EXCEPT ![i] = [s EXCEPT !.pc = "calculate"]]
                /\ UNCHANGED resp
           ELSE Close(i, [Response("analytics", s.user, 200, "") EXCEPT
                             !.force_refresh = s.force_refresh,
                             !.prior = LastCalculated(found),
                             !.body = <<Body(found[1])>>])
        /\ UNCHANGED <<now, users, services, subscriptions, nextId, analytics>>

\* calculate_and_cache_analytics up to its flush: the aggregates of the
\* committed subscriptions, and the select of the user's row.
Calculate(i) ==
    LET s == inflight[i]
    IN  /\ s.pc = "calculate"
        /\ inflight' = [inflight EXCEPT ![i] =
              [s EXCEPT !.snap = <<Recompute(subscriptions, services, s.user, now)>>,
                        !.found = OneOrNone(AnalyticsRows(analytics, s.user)),
                        !.pc = "store"]]
        /\ UNCHANGED <<now, users, services, subscriptions, nextId, analytics, resp>>

\* Mutant: user_analytics.user_id is not unique.
UniqueViolation_none(rows, u) == FALSE

\* unique=True on user_analytics.user_id: an INSERT for a user who has a
\* committed row fails.
UniqueViolation(rows, u) == AnalyticsRows(rows, u) # {}

\* A row of user_analytics with its primary key.
WithId(snap, id) == [k \in DOMAIN snap \cup {"id"} |-> IF k = "id" THEN id ELSE snap[k]]

\* Mutant: the UPDATE writes the totals and leaves the JSON columns alone.
UpdateRow_totals(row, loaded, snap) ==
    [k \in DOMAIN row |->
        IF k \in {"total_monthly_cost", "total_annual_cost", "service_count"}
           /\ snap[k] # loaded[k]
        THEN snap[k] ELSE row[k]]

\* The UPDATE the unit of work emits for the row it loaded: it sets the
\* columns whose assigned value differs from the loaded one, and the others
\* keep what is committed.
UpdateRow(row, loaded, snap) ==
    [k \in DOMAIN row |->
        IF k # "id" /\ snap[k] # loaded[k] THEN snap[k] ELSE row[k]]

\* The flush of calculate_and_cache_analytics and the commit after it: an
\* INSERT when the select found no row, an UPDATE of the row found otherwise.
Store(i, ok) ==
    LET s == inflight[i]
        done == [Response(s.op, s.user, 200, SuccessMessage(s.op)) EXCEPT
                    !.sub_id = s.sub_id, !.prior = LastCalculated(s.found),
                    !.recomputed = TRUE, !.mutated = s.op # "analytics",
                    !.body = IF s.op = "analytics" THEN <<Body(s.snap[1])>> ELSE <<>>]
    IN  /\ s.pc = "store"
        /\ IF ~ok \/ (s.found = <<>> /\ UniqueViolation(analytics, s.user))
           THEN /\ Close(i, [FailureResponse(s.op, s.user) EXCEPT !.sub_id = s.sub_id])
                /\ UNCHANGED <<analytics, nextId>>
           ELSE /\ IF s.found = <<>>
                   THEN /\ analytics' = analytics \cup {WithId(s.snap[1], nextId)}
                        /\ nextId' = nextId + 1
                   ELSE /\ analytics' =
                              {r \in analytics : r.id # s.found[1].id}
                                  \cup {UpdateRow(r, s.found[1], s.snap[1]) :
                                           r \in {c \in analytics : c.id = s.found[1].id}}
                        /\ UNCHANGED nextId
                /\ Close(i, done)
        /\ UNCHANGED <<now, users, services, subscriptions>>

\* Both users are known, A has one subscription, and no snapshot is stored
\* yet: the recomputes after their mutations have failed.
InitRace ==
    /\ now = 0
    /\ users = Users
    /\ services = <<Netflix>>
    /\ subscriptions = <<NewSubscription(1, "auth0|A", 1, 10, 0)>>
    /\ nextId = 2
    /\ analytics = {}
    /\ inflight = <<>>
    /\ resp = NoResp

NextRace ==
    \/ \E u \in Users : Begin("update", u, 1, <<25>>, FALSE)
    \/ Begin("delete", "auth0|A", 1, <<>>, FALSE)
    \/ \E force \in BOOLEAN : Begin("analytics", "auth0|A", 0, <<>>, force)
    \/ \E i \in DOMAIN inflight : GetOrCreateUser(i)
    \/ \E i \in DOMAIN inflight : Lookup(i)
    \/ \E i \in DOMAIN inflight, ok \in BOOLEAN : Mutate(i, ok)
    \/ \E i \in DOMAIN inflight : Cached(i)
    \/ \E i \in DOMAIN inflight : Calculate(i)
    \/ \E i \in DOMAIN inflight, ok \in BOOLEAN : Store(i, ok)

SpecRace == InitRace /\ [][NextRace]_vars

\* User A is known, has two subscriptions and the snapshot of them.
InitSnapshotRace ==
    /\ now = 0
    /\ users = Users
    /\ services = <<Netflix>>
    /\ subscriptions = <<NewSubscription(1, "auth0|A", 1, 10, 0),
                         NewSubscription(2, "auth0|A", 1, 10, 0)>>
    /\ nextId = 4
    /\ analytics = {WithId(Recompute(subscriptions, services, "auth0|A", 0), 3)}
    /\ inflight = <<>>
    /\ resp = NoResp

\* Mutations of user A that overlap, every commit succeeding.
NextSnapshotRace ==
    \/ Begin("update", "auth0|A", 1, <<25>>, FALSE)
    \/ Begin("delete", "auth0|A", 2, <<>>, FALSE)
    \/ \E i \in DOMAIN inflight : GetOrCreateUser(i)
    \/ \E i \in DOMAIN inflight : Lookup(i)
    \/ \E i \in DOMAIN inflight : Mutate(i, TRUE)
    \/ \E i \in DOMAIN inflight : Calculate(i)
    \/ \E i \in DOMAIN inflight : Store(i, TRUE)

SpecSnapshotRace == InitSnapshotRace /\ [][NextSnapshotRace]_vars

\* The select by Service.name of the create handlers for the service both
\* requests name: scalar_one_or_none raises when it finds two rows.
SelectService(i) ==
    LET s == inflight[i]
        named == ServicesNamed(services, Gym.name)
    IN  /\ s.pc = "service"
        /\ IF Cardinality(named) > 1
           THEN Close(i, FailureResponse(s.op, s.user))
           ELSE /\ inflight' = [inflight EXCEPT ![i] =
                      [s EXCEPT !.target = IF named = {} THEN <<>>
                                           ELSE <<CHOOSE k \in named : TRUE>>,
                                !.pc = "insert"]]
                /\ UNCHANGED resp
        /\ UNCHANGED <<now, users, services, subscriptions, nextId, analytics>>

\* The INSERT of the service when the select found none, the INSERT of the
\* subscription, and the first commit.
InsertRows(i, ok) ==
    LET s == inflight[i]
        service_id == IF s.target = <<>> THEN Len(services) + 1 ELSE s.target[1]
    IN  /\ s.pc = "insert"
        /\ IF ~ok
           THEN /\ Close(i, FailureResponse(s.op, s.user))
                /\ UNCHANGED <<services, subscriptions, nextId>>
           ELSE /\ services' = IF s.target = <<>> THEN Append(services, Gym)
                                ELSE services
                /\ subscriptions' = Append(subscriptions,
                       NewSubscription(nextId, s.user, service_id, s.monthly_cost[1], now))
                /\ nextId' = nextId + 1
                /\ inflight' = [inflight EXCEPT ![i] =
                       [s EXCEPT !.sub_id = nextId, !.txn = s.txn + 1, !.lock = FALSE,
                                 !.pc = "calculate"]]
                /\ UNCHANGED resp
        /\ UNCHANGED <<now, users, analytics>>

\* Both users are known and no subscription names the Gym service yet.
InitCreateRace ==
    /\ now = 0
    /\ users = Users
    /\ services = <<Netflix>>
    /\ subscriptions = <<>>
    /\ nextId = 1
    /\ analytics = {}
    /\ inflight = <<>>
    /\ resp = NoResp

\* Creates of a subscription to the Gym service that overlap: plain creates
\* by either user, NLP creates by the second.
NextCreateRace ==
    \/ /\ Len(subscriptions) < MaxSubs
       /\ \/ \E u \in Users : Begin("create", u, 0, <<10>>, FALSE)
          \/ Begin("nlp", "auth0|B", 0, <<10>>, FALSE)
    \/ \E i \in DOMAIN inflight : GetOrCreateUser(i)
    \/ \E i \in DOMAIN inflight : SelectService(i)
    \/ \E i \in DOMAIN inflight, ok \in BOOLEAN : InsertRows(i, ok)
    \/ \E i \in DOMAIN inflight : Calculate(i)
    \/ \E i \in DOMAIN inflight, ok \in BOOLEAN : Store(i, ok)

SpecCreateRace == InitCreateRace /\ [][NextCreateRace]_vars

\* ------------------------------------------ every column of a subscription
\* The handlers again, with the rows carrying the columns the requests set:
\* cost, billing_cycle, the trial fields and updated_at.
\* schemas.BillingCycle is what a request may name, models.BillingCycle what
\* the column can hold: a flush of any other value raises.
BillingCycles == {"weekly", "monthly", "yearly"}

StoredCycles == {"monthly", "yearly"}

CostChoices ==
    {[cost |-> 12, billing_cycle |-> "monthly", monthly_cost |-> 12],
     [cost |-> 120, billing_cycle |-> "yearly", monthly_cost |-> 10],
     [cost |-> 120, billing_cycle |-> "yearly", monthly_cost |-> 120],
     [cost |-> 3, billing_cycle |-> "weekly", monthly_cost |-> 13]}

TrialChoices ==
    {[is_trial |-> FALSE, trial_start_date |-> <<>>, trial_end_date |-> <<>>,
      trial_duration_days |-> <<>>],
     [is_trial |-> TRUE, trial_start_date |-> <<0>>, trial_end_date |-> <<7 * Day>>,
      trial_duration_days |-> <<7>>],
     [is_trial |-> TRUE, trial_start_date |-> <<0>>, trial_end_date |-> <<Day>>,
      trial_duration_days |-> <<7>>]}

\* SubscriptionCreate bodies.
Bodies == {c @@ t : c \in CostChoices, t \in TrialChoices}

\* SubscriptionUpdate: every field is optional and absent by default.
NoPatch ==
    [cost |-> <<>>, billing_cycle |-> <<>>, monthly_cost |-> <<>>, is_trial |-> <<>>,
     trial_start_date |-> <<>>, trial_end_date |-> <<>>, trial_duration_days |-> <<>>]

CostPatches ==
    {[NoPatch EXCEPT !.cost = c, !.billing_cycle = b, !.monthly_cost = m] :
        c \in Opt({120}), b \in Opt({"yearly", "weekly"}), m \in Opt({10})}

\* A date in a request is a string: <<>> is the empty string, <<t>> the ISO
\* form of time t.
TrialPatches ==
    {[NoPatch EXCEPT !.is_trial = i, !.trial_start_date = st, !.trial_end_date = en,
                     !.trial_duration_days = d] :
        i \in Opt({TRUE}), st \in Opt(Opt({0})), en \in Opt({<<7 * Day>>}), d \in Opt({7})}

\* Requests naming any subset of the fields.
AllPatches ==
    {[cost |-> c, billing_cycle |-> b, monthly_cost |-> m, is_trial |-> i,
      trial_start_date |-> st, trial_end_date |-> en, trial_duration_days |-> d] :
        c \in Opt({120}), b \in Opt({"yearly"}), m \in Opt({10}), i \in Opt({TRUE}),
        st \in Opt({<<>>}), en \in Opt({<<7 * Day>>}), d \in Opt({7})}

\* Subscription(...) of create_subscription: the body's fields as given.
SubscriptionColumns(u, body, t) ==
    [id |-> 0, user_id |-> u, service_id |-> 0,
     cost |-> body.cost, billing_cycle |-> body.billing_cycle,
     monthly_cost |-> body.monthly_cost, is_trial |-> body.is_trial,
     trial_start_date |-> body.trial_start_date,
     trial_end_date |-> body.trial_end_date,
     trial_duration_days |-> body.trial_duration_days,
     created_at |-> t, updated_at |-> <<>>]

\* POST /subscriptions, to the first commit.
CreateSubscriptionColumns(u, svc, body, ok) ==
    IF svc = <<>>
    THEN Rejected(Response("create", u, 422, "Service information is required"))
    ELSE /\ nextId <= MaxFullRows
         /\ IF \/ Cardinality(ServicesNamed(services, svc[1].name)) > 1
               \/ ~ok
               \/ body.billing_cycle \notin StoredCycles
            THEN Rejected(ServerError("create", u, 0))
            ELSE InsertRow("create", u, svc[1].name, svc[1].category,
                           SubscriptionColumns(u, body, now))

\* A field of the update request: absent, it leaves the column alone.
PatchField(old, new) == IF new = <<>> THEN old ELSE new[1]

\* A nullable column: the value is stored as present.
PatchNullable(old, new) == IF new = <<>> THEN old ELSE new

\* datetime.fromisoformat(x) if x else None, for a date that is not None.
PatchDate(old, new) == IF new = <<>> THEN old ELSE new[1]

\* Mutant: updated_at moves only when the request names a field.
ApplyPatch_ifnamed(sub, patch, t) ==
    [sub EXCEPT !.cost = PatchField(@, patch.cost),
                !.billing_cycle = PatchField(@, patch.billing_cycle),
                !.monthly_cost = PatchField(@, patch.monthly_cost),
                !.is_trial = PatchField(@, patch.is_trial),
                !.trial_start_date = PatchDate(@, patch.trial_start_date),
                !.trial_end_date = PatchDate(@, patch.trial_end_date),
                !.trial_duration_days = PatchNullable(@, patch.trial_duration_days),
                !.updated_at = IF patch = NoPatch THEN @ ELSE <<t>>]

\* Mutant: the update also re-points the row at another service.
ApplyPatch_rebind(sub, patch, t) ==
    [sub EXCEPT !.cost = PatchField(@, patch.cost),
                !.billing_cycle = PatchField(@, patch.billing_cycle),
                !.monthly_cost = PatchField(@, patch.monthly_cost),
                !.is_trial = PatchField(@, patch.is_trial),
                !.trial_start_date = PatchDate(@, patch.trial_start_date),
                !.trial_end_date = PatchDate(@, patch.trial_end_date),
                !.trial_duration_days = PatchNullable(@, patch.trial_duration_days),
                !.service_id = @ + 1,
                !.updated_at = <<t>>]

\* The field patches of update_subscription and its updated_at.
ApplyPatch(sub, patch, t) ==
    [sub EXCEPT !.cost = PatchField(@, patch.cost),
                !.billing_cycle = PatchField(@, patch.billing_cycle),
                !.monthly_cost = PatchField(@, patch.monthly_cost),
                !.is_trial = PatchField(@, patch.is_trial),
                !.trial_start_date = PatchDate(@, patch.trial_start_date),
                !.trial_end_date = PatchDate(@, patch.trial_end_date),
                !.trial_duration_days = PatchNullable(@, patch.trial_duration_days),
                !.updated_at = <<t>>]

\* PUT /subscriptions/{id}, to the first commit.
UpdateSubscriptionColumns(u, sid, patch, ok) ==
    LET mine == OwnSubscription(subscriptions, sid, u)
    IN  IF mine = {}
        THEN Rejected(NotFound("update", u, sid))
        ELSE IF ok /\ (patch.billing_cycle = <<>> \/ patch.billing_cycle[1] \in StoredCycles)
        THEN LET i == CHOOSE i \in mine : TRUE
             IN  /\ subscriptions' = [subscriptions EXCEPT
                        ![i] = ApplyPatch(@, patch, now)]
                 /\ users' = users \cup {u}
                 /\ inflight' = Append(inflight,
                        [op |-> "update", user |-> u, sub_id |-> sid])
                 /\ resp' = [Pending("update", u, sid) EXCEPT !.request = <<patch>>]
                 /\ UNCHANGED <<now, services, nextId, analytics>>
        ELSE Rejected(ServerError("update", u, sid))

FullIds == 1..(MaxFullRows + 1)

\* One user's creates and updates of the cost and trial columns.
NextColumns ==
    \/ Idle /\ \E svc \in Opt({Netflix}), body \in Bodies, ok \in BOOLEAN :
          CreateSubscriptionColumns("auth0|A", svc, body, ok)
    \/ Idle /\ \E d \in Opt(TrialDrafts), m \in BOOLEAN, ok \in BOOLEAN :
          CreateFromNlpColumns("auth0|A", d, m, ok)
    \/ Idle /\ \E sid \in FullIds, patch \in CostPatches \cup TrialPatches,
                   ok \in BOOLEAN :
          UpdateSubscriptionColumns("auth0|A", sid, patch, ok)
    \/ \E i \in DOMAIN inflight, ok \in BOOLEAN : RecomputeAfterMutation(i, ok)

SpecColumns == Init /\ [][NextColumns]_vars

\* One subscription as a create left it, then updates of any of its fields
\* while time passes.
InitUpdate ==
    /\ now = 0
    /\ users = {"auth0|A"}
    /\ services = <<Netflix>>
    /\ \E body \in Bodies :
          /\ body.billing_cycle \in StoredCycles
          /\ subscriptions =
                <<[SubscriptionColumns("auth0|A", body, 0) EXCEPT
                      !.id = 1, !.service_id = 1]>>
    /\ nextId = 2
    /\ analytics = {Recompute(subscriptions, services, "auth0|A", 0)}
    /\ inflight = <<>>
    /\ resp = NoResp

NextUpdate ==
    \/ Advance
    \/ Idle /\ \E sid \in {1, 2}, patch \in AllPatches, ok \in BOOLEAN :
          UpdateSubscriptionColumns("auth0|A", sid, patch, ok)
    \/ Idle /\ UpdateSubscriptionColumns("auth0|B", 1,
                     [NoPatch EXCEPT !.monthly_cost = <<10>>], TRUE)
    \/ \E i \in DOMAIN inflight, ok \in BOOLEAN : RecomputeAfterMutation(i, ok)

SpecUpdate == InitUpdate /\ [][NextUpdate]_vars

\* ------------------------------------------------------------------ claims
\* What the claims call the aggregate of a user's subscription set.
Aggregate(u) == Body(Recompute(subscriptions, services, u, now))

StoredRow(u) == OneOrNone(AnalyticsRows(analytics, u))

\* A row the claims call fresh: present, dated, at most one hour old.
Fresh(found, t) ==
    /\ found # <<>>
    /\ found[1].last_calculated # NullTime
    /\ t - found[1].last_calculated <= CacheTTL

\* C1: a get_analytics without force_refresh that finds a row at most one
\* hour old recomputes nothing, leaves the stored rows (last_calculated
\* included) as they were and answers with exactly the stored values.
C1_CacheHit ==
    [][ (resp'.op = "analytics" /\ ~resp'.force_refresh
            /\ Fresh(StoredRow(resp'.user), now))
        => /\ analytics' = analytics
           /\ ~resp'.recomputed
           /\ resp'.status = 200
           /\ resp'.body = <<Body(StoredRow(resp'.user)[1])>> ]_vars

\* A fetch served from a row exactly one hour old whose values are no longer
\* the aggregate of the subscriptions.
C1_Witness ==
    /\ resp.op = "analytics" /\ resp.status = 200
    /\ ~resp.force_refresh /\ ~resp.recomputed
    /\ resp.prior = <<now - CacheTTL>>
    /\ resp.body # <<Aggregate(resp.user)>>

\* C2: an answered get_analytics recomputes and stores iff force_refresh is
\* set, or no row exists, or last_calculated is null, or the row is more
\* than one hour old; when it does, the stored last_calculated is the
\* current time and the response is the aggregate of the subscriptions.
C2_StaleRule ==
    (resp.op = "analytics" /\ resp.status = 200)
    => /\ resp.recomputed <=>
            \/ resp.force_refresh
            \/ resp.prior = <<>>
            \/ resp.prior = <<NullTime>>
            \/ now - resp.prior[1] > CacheTTL
       /\ resp.recomputed =>
            /\ StoredRow(resp.user) # <<>>
            /\ StoredRow(resp.user)[1].last_calculated = now
            /\ Body(StoredRow(resp.user)[1]) = Aggregate(resp.user)
            /\ resp.body = <<Aggregate(resp.user)>>

\* A recompute forced by age alone.
C2_Witness ==
    /\ resp.op = "analytics" /\ resp.status = 200
    /\ ~resp.force_refresh /\ resp.recomputed
    /\ resp.prior # <<>> /\ now - resp.prior[1] > CacheTTL

\* C3: a mutation request that succeeds has recomputed and stored its user's
\* snapshot: the stored row is dated now and is the aggregate of the
\* subscriptions, however recent the row it replaced.
C3_MutationRecomputes ==
    (resp.op \in MutationOps /\ resp.success)
    => /\ resp.recomputed
       /\ StoredRow(resp.user) # <<>>
       /\ StoredRow(resp.user)[1].last_calculated = now
       /\ Body(StoredRow(resp.user)[1]) = Aggregate(resp.user)

\* A successful update that replaced a row younger than one hour.
C3_Witness ==
    /\ resp.op = "update" /\ resp.success
    /\ resp.prior # <<>> /\ now - resp.prior[1] <= CacheTTL

\* C4: a get_analytics without force_refresh that immediately follows a
\* request that committed a mutation of the same user answers with the
\* aggregate of the subscriptions as the mutation left them.
C4_FetchAfterMutation ==
    (resp.op = "analytics" /\ resp.status = 200 /\ ~resp.force_refresh /\ resp.follows)
    => resp.body = <<Aggregate(resp.user)>>

\* C5: whenever no handler is between its two commits, every user's stored
\* snapshot is the aggregate of that user's committed subscriptions (a user
\* without a snapshot has no subscriptions): mutation and snapshot update
\* are committed together or not at all.
C5_AtomicWithRecompute ==
    Idle =>
      \A u \in Users :
        IF StoredRow(u) = <<>>
        THEN UserSubscriptions(subscriptions, u) = <<>>
        ELSE Body(StoredRow(u)[1]) = Aggregate(u)

\* A subscription id that exists and belongs to someone other than u.
Foreign(sid, u) ==
    \E i \in DOMAIN subscriptions :
        subscriptions[i].id = sid /\ subscriptions[i].user_id # u

Unknown(sid) == \A i \in DOMAIN subscriptions : subscriptions[i].id # sid

\* C6: a delete of another user's subscription is answered 404
\* "Subscription not found" and leaves the subscriptions and the snapshots
\* as they were.
C6_CrossUserDelete ==
    [][ (Idle /\ resp'.op = "delete" /\ Foreign(resp'.sub_id, resp'.user))
        => /\ resp'.status = 404
           /\ resp'.detail = "Subscription not found"
           /\ subscriptions' = subscriptions
           /\ analytics' = analytics ]_vars

\* A refused delete of a subscription whose owner has a snapshot.
C6_Witness ==
    /\ resp.op = "delete" /\ resp.status = 404
    /\ \E i \in DOMAIN subscriptions :
          /\ subscriptions[i].id = resp.sub_id
          /\ subscriptions[i].user_id # resp.user
          /\ StoredRow(subscriptions[i].user_id) # <<>>

\* C7: an update or delete of an id that is another user's gets the very
\* response, and has the very effect (none), of one of an id that does not
\* exist: both are a function of the request alone.
C7_NoExistenceLeak ==
    [][ (Idle /\ resp'.op \in {"update", "delete"}
            /\ (Foreign(resp'.sub_id, resp'.user) \/ Unknown(resp'.sub_id)))
        => /\ resp' = [NoResp EXCEPT !.op = resp'.op, !.user = resp'.user,
                          !.sub_id = resp'.sub_id, !.status = 404,
                          !.detail = "Subscription not found"]
           /\ UNCHANGED <<users, services, subscriptions, nextId, analytics,
                          inflight>> ]_vars

\* A refused update of another user's subscription.
C7_Witness ==
    /\ resp.op = "update" /\ resp.status = 404
    /\ Foreign(resp.sub_id, resp.user)

Times == {k * Tick : k \in 0..MaxTicks}

\* C8: the five fields a recompute stores are those of a recompute of the
\* same subscriptions and services at any other time and over no previous
\* row: a second run changes nothing but last_calculated.
C8_RecomputeIdempotent ==
    (resp.op = "analytics" /\ resp.recomputed /\ resp.status = 200)
    => \A t \in Times :
         Body(StoredRow(resp.user)[1])
           = Body(CHOOSE r \in StoreAnalytics({}, resp.user,
                       Recompute(subscriptions, services, resp.user, t)) : TRUE)

\* A recompute over a row left from other subscriptions.
C8_Witness ==
    /\ resp.op = "analytics" /\ resp.recomputed /\ resp.status = 200
    /\ resp.prior # <<>>
    /\ Len(subscriptions) >= 2
    /\ Body(StaleRow) # resp.body[1]

RECURSIVE SumTotals(_)
SumTotals(entries) ==
    IF entries = <<>> THEN 0 ELSE Head(entries).total + SumTotals(Tail(entries))

\* C9: in a snapshot stored by a recompute over at least one subscription,
\* the totals of category_breakdown add up to total_monthly_cost.
C9_CategoriesSumToTotal ==
    (resp.op = "analytics" /\ resp.recomputed /\ resp.status = 200
        /\ StoredRow(resp.user)[1].service_count > 0)
    => SumTotals(StoredRow(resp.user)[1].category_breakdown)
         = StoredRow(resp.user)[1].total_monthly_cost

\* Two categories, one of them holding two subscriptions.
C9_Witness ==
    /\ resp.op = "analytics" /\ resp.recomputed /\ resp.status = 200
    /\ StoredRow(resp.user)[1].service_count = 3
    /\ Len(StoredRow(resp.user)[1].category_breakdown) = 2

\* C10: every answer of get_analytics, recomputed or served from the cache,
\* has total_annual_cost = total_monthly_cost * 12.
C10_AnnualIsTwelveMonths ==
    (resp.op = "analytics" /\ resp.status = 200)
    => resp.body[1].total_annual_cost = resp.body[1].total_monthly_cost * 12

\* A cached answer with a non-zero total.
C10_Witness ==
    /\ resp.op = "analytics" /\ resp.status = 200 /\ ~resp.recomputed
    /\ resp.body[1].total_monthly_cost > 0

\* The Money Normalizer of the specification, on amounts it divides exactly.
Normalize(cost, cycle) ==
    CASE cycle = "monthly" -> cost
      [] cycle = "yearly" -> cost \div 12
      [] cycle = "weekly" -> (cost * 52) \div 12

\* C11: every stored subscription has monthly_cost equal to the Money
\* Normalizer of its stored cost and billing_cycle, whatever monthly_cost the
\* caller of create or update supplied.
C11_MonthlyCostNormalized ==
    \A i \in DOMAIN subscriptions :
        subscriptions[i].monthly_cost
          = Normalize(subscriptions[i].cost, subscriptions[i].billing_cycle)

\* C12: every stored subscription with is_trial and a positive
\* trial_duration_days has trial_end_date = trial_start_date + that many days.
C12_TrialInvariant ==
    \A i \in DOMAIN subscriptions :
        LET sub == subscriptions[i]
        IN  (sub.is_trial /\ sub.trial_duration_days # <<>>
                /\ sub.trial_duration_days[1] > 0)
            => /\ sub.trial_start_date # <<>>
               /\ sub.trial_end_date # <<>>
               /\ sub.trial_end_date[1]
                    = sub.trial_start_date[1] + sub.trial_duration_days[1] * Day

Active(k) == \E i \in DOMAIN subscriptions : subscriptions[i].id = k

Deleted(k) == k < nextId /\ ~Active(k)

ActiveAfter(k) == \E i \in DOMAIN subscriptions' : subscriptions'[i].id = k

RowOf(subs, k) == subs[CHOOSE i \in DOMAIN subs : subs[i].id = k]

\* C14: an id becomes active only by a create that hands it out, an active
\* id keeps its row's identity (id, owner, created_at) until a delete of
\* that very id removes it, and a deleted id never becomes active again, is
\* never listed, and gets 404 from every update and delete.
C14_Lifecycle ==
    [][ /\ \A k \in 1..(MaxSubs + 1) :
            /\ (~Active(k) /\ ActiveAfter(k))
                  => /\ k = nextId /\ nextId' = nextId + 1
                     /\ resp'.op \in {"create", "nlp", "nlp-multimodal"}
                     /\ resp'.sub_id = k
            /\ (Active(k) /\ ActiveAfter(k))
                  => /\ RowOf(subscriptions', k).user_id = RowOf(subscriptions, k).user_id
                     /\ RowOf(subscriptions', k).created_at
                          = RowOf(subscriptions, k).created_at
            /\ (Active(k) /\ ~ActiveAfter(k))
                  => resp'.op = "delete" /\ resp'.sub_id = k
            /\ (Deleted(k) /\ Idle /\ resp'.op \in {"update", "delete"}
                    /\ resp'.sub_id = k)
                  => resp'.status = 404
            /\ (Deleted(k) /\ resp'.op = "list")
                  => \A i \in DOMAIN resp'.body[1] : resp'.body[1][i].id # k
        /\ \A i, j \in DOMAIN subscriptions' :
              i # j => subscriptions'[i].id # subscriptions'[j].id ]_vars

\* An update refused because its id was deleted.
C14_Witness ==
    /\ resp.op = "update" /\ resp.status = 404
    /\ Deleted(resp.sub_id)

\* C15: extraction tries the pattern table first and never calls the model
\* on a hit; on a miss it calls the model exactly once, with no retry; a
\* call that fails in any way yields a null draft, not an exception.
Hit(text) == \E i \in DOMAIN PatternTable : PatternTable[i].pattern \in text.mentions

C15_ExtractionOrder ==
    Extracting =>
        LET text == resp.request[1].text
        IN  /\ Hit(text) => /\ resp.llm_calls = 0
                            /\ resp.detail = "pattern"
                            /\ resp.parsed_data # <<>>
                            /\ resp.parsed_data = TryPatternBasedParsing(text, now)
            /\ ~Hit(text) => \/ resp.detail = "llm" /\ resp.llm_calls = 0
                             \/ /\ resp.detail \in LlmFailures \cup {"reply"}
                                /\ resp.llm_calls = 1
            /\ resp.detail \in LlmFailures => resp.parsed_data = <<>>

C15_Witness ==
    /\ Extracting /\ ~Hit(resp.request[1].text)
    /\ resp.detail = "timeout" /\ resp.llm_calls = 1 /\ resp.parsed_data = <<>>

\* C16: a text with no known service and no price, with the model
\* unavailable, is answered by a soft failure (200, success = FALSE, nothing
\* stored) whose message says the cost could not be determined.
NlpOps == {"nlp", "nlp-multimodal"}
Unavailable == {"timeout", "raises", "status"}
CostMessages ==
    {"Unable to determine monthly cost, please specify the amount",
     "Unable to determine monthly cost from image, please specify the amount"}
ParseMessages ==
    {"Unable to parse subscription information, please provide more details",
     "Unable to parse subscription information from image, please provide more details"}
NothingStored == UNCHANGED <<users, services, subscriptions, nextId, analytics, inflight>>

NoServiceNoPriceNoLlm ==
    /\ Extracting
    /\ ~Hit(resp.request[1].text) /\ resp.request[1].text.price = <<>>
    /\ resp.detail \in Unavailable
    /\ resp'.op \in NlpOps

C16_CostMessage ==
    [][NoServiceNoPriceNoLlm =>
          /\ resp'.status = 200 /\ ~resp'.success /\ NothingStored
          /\ resp'.detail \in CostMessages]_vars

\* C16 as the handlers have it: the soft failure says that the subscription
\* information could not be parsed, and carries no draft.
C16_ParseMessage ==
    [][NoServiceNoPriceNoLlm =>
          /\ resp'.status = 200 /\ ~resp'.success /\ NothingStored
          /\ resp'.detail \in ParseMessages
          /\ resp'.parsed_data = <<>>]_vars

\* A null draft only comes out of a miss followed by a failed call.
C16_Witness ==
    /\ resp.op = "nlp" /\ resp.status = 200 /\ ~resp.success
    /\ resp.parsed_data = <<>> /\ resp.detail \in ParseMessages

\* C17: a draft without a service name is answered by the "unable to parse"
\* soft failure, a draft with a service name and no monthly cost by the
\* different "unable to determine monthly cost" one, by both NLP endpoints,
\* and in both cases parsed_data is the draft that was parsed.
C17_PartialDraft ==
    [][(Extracting /\ resp.parsed_data # <<>> /\ resp'.op \in NlpOps) =>
          LET draft == resp.parsed_data[1]
              refused == /\ resp'.status = 200 /\ ~resp'.success /\ NothingStored
                         /\ resp'.parsed_data = <<draft>>
                         /\ resp'.op = NlpOp(resp.request[1].multimodal)
          IN  /\ NoName(draft) =>
                    refused /\ resp'.detail \in ParseMessages
              /\ (~NoName(draft) /\ draft.monthly_cost = <<>>) =>
                    refused /\ resp'.detail \in CostMessages
              /\ ParseMessages \cap CostMessages = {}]_vars

C17_Witness ==
    /\ resp.op = "nlp-multimodal" /\ resp.status = 200 /\ ~resp.success
    /\ resp.parsed_data # <<>>
    /\ resp.parsed_data[1].service_name = <<"Hulu">>
    /\ resp.parsed_data[1].monthly_cost = <<>>
    /\ resp.detail \in CostMessages

\* C18: there is at most one row of user_analytics per user, and a
\* recompute overwrites it instead of adding one, also when two requests of
\* a user that both found no row interleave their recomputes.
C18_OneSnapshot ==
    [][\A u \in Users :
          /\ Cardinality(AnalyticsRows(analytics', u)) <= 1
          /\ AnalyticsRows(analytics, u) # {} =>
                /\ Cardinality(AnalyticsRows(analytics', u)) = 1
                /\ {r.id : r \in AnalyticsRows(analytics', u)} =
                       {r.id : r \in AnalyticsRows(analytics, u)}]_vars

\* One of two recomputes that found no row has stored its row, the other
\* is about to store.
C18_Witness ==
    /\ AnalyticsRows(analytics, "auth0|A") # {}
    /\ \E i \in DOMAIN inflight :
          /\ inflight[i].user = "auth0|A"
          /\ inflight[i].pc = "store" /\ inflight[i].found = <<>>

\* C20: update and delete look the subscription up by id and owner and
\* mutate it in one transaction, with no commit in between: every mutation
\* that is committed was checked in the transaction that commits it, and
\* touches only the row that was looked up, which is the caller's.
Rows(subs) == {subs[k] : k \in DOMAIN subs}

Mutates(i) ==
    /\ i \in DOMAIN inflight /\ inflight[i].pc = "mutate"
    /\ Len(inflight') = Len(inflight) /\ inflight'[i].pc = "calculate"

C20_CheckAndMutation ==
    [][/\ subscriptions' # subscriptions => \E i \in DOMAIN inflight : Mutates(i)
       /\ \A i \in DOMAIN inflight : Mutates(i) =>
             LET s == inflight[i]
             IN  /\ s.checked = s.txn
                 /\ inflight'[i].txn = s.txn + 1
                 /\ s.target # <<>>
                 /\ s.target[1].id = s.sub_id /\ s.target[1].user_id = s.user
                 /\ \A r \in (Rows(subscriptions) \ Rows(subscriptions'))
                              \cup (Rows(subscriptions') \ Rows(subscriptions)) :
                       r.id = s.sub_id /\ r.user_id = s.user]_vars

\* Two requests on one subscription id: one has committed its mutation and
\* is recomputing, the other has made its check and is about to mutate.
C20_Witness ==
    \E i, j \in DOMAIN inflight :
        /\ i # j /\ inflight[i].sub_id = 1 /\ inflight[j].sub_id = 1
        /\ inflight[i].op = "update" /\ inflight[i].txn = 2
        /\ inflight[j].op = "delete" /\ inflight[j].pc = "mutate"
        /\ inflight[j].checked = 1 /\ inflight[j].target # <<>>

\* C19: once an authenticated request has completed, read-only ones
\* included, the committed store holds the caller's User; here for the
\* listing of the subscriptions.
C19_UserCommitted ==
    (resp.op = "list" /\ resp.status = 200) => resp.user \in users

\* C21: every draft that validation produces has a payment_date that parses
\* as an ISO date: the reply's when that is a valid ISO date, and the first
\* day of the next calendar month when it is invalid, missing, null or empty.
C21_PaymentDateIsIso ==
    resp.op = "validated" =>
        LET raw == resp.request[1].payment_date
            date == resp.parsed_data[1].payment_date
        IN  /\ date # <<>>
            /\ FromIsoFormat(date[1]) # <<>>
            /\ date = IF raw # <<>> /\ FromIsoFormat(raw[1]) # <<>> THEN raw
                      ELSE <<DefaultPaymentDate(now)>>

\* C22: the output of validation has a service_name that is null or a
\* non-empty trimmed string, a service_category that is not null ("Other"
\* when the reply gave none), an account that is not empty ("Default
\* Account" when missing or empty) and a monthly_cost that is a number or
\* null.
C22_NormalizedDraft ==
    resp.op = "validated" =>
        LET raw == resp.request[1]
            draft == resp.parsed_data[1]
        IN  /\ \/ draft.service_name = <<>>
               \/ /\ draft.service_name[1] # ""
                  /\ Strip(draft.service_name[1]) = draft.service_name[1]
            /\ draft.service_category # <<>>
            /\ (raw.service_category \in {<<>>, <<<<>>>>}) =>
                  draft.service_category = <<"Other">>
            /\ draft.account # ""
            /\ (raw.account \in {<<>>, <<"">>}) => draft.account = "Default Account"
            /\ draft.monthly_cost \in Opt({800})

\* C25: a subscription that an NLP endpoint creates at time T from a draft
\* with is_trial and trial_duration_days > 0 has trial_start_date = T and
\* trial_end_date = T + trial_duration_days days; from any other draft both
\* dates are null.
C25_TrialDerivation ==
    [][(Extracting /\ resp'.op \in NlpOps /\ Len(subscriptions') = Len(subscriptions) + 1)
        => LET draft == resp.parsed_data[1]
               days == draft.trial_duration_days
               row == RowOf(subscriptions', nextId)
           IN  /\ row.created_at = now
               /\ IF draft.is_trial /\ days # <<>> /\ days[1] > 0
                  THEN /\ row.trial_start_date = <<now>>
                       /\ row.trial_end_date = <<now + days[1] * Day>>
                  ELSE /\ row.trial_start_date = <<>>
                       /\ row.trial_end_date = <<>>]_vars

C25_Witness ==
    /\ resp.op \in NlpOps
    /\ \E i \in DOMAIN subscriptions :
          /\ subscriptions[i].created_at > 0
          /\ subscriptions[i].is_trial
          /\ subscriptions[i].trial_start_date = <<subscriptions[i].created_at>>
          /\ subscriptions[i].trial_end_date = <<subscriptions[i].created_at + 7 * Day>>

\* C23: in a recomputed snapshot category_breakdown has one entry per
\* category of the user's subscriptions (that of the service, "Other" when
\* the service is missing), whose total is the sum of the monthly_cost of the
\* subscriptions of that category, in the order in which the categories are
\* first met.
CategoryOf(sub) ==
    IF sub.service_id \in DOMAIN services THEN services[sub.service_id].category
    ELSE "Other"

FirstMet(ss, cat) ==
    CHOOSE k \in DOMAIN ss :
        /\ CategoryOf(ss[k]) = cat
        /\ \A j \in 1..(k - 1) : CategoryOf(ss[j]) # cat

C23_CategoryBreakdown ==
    (resp.op = "analytics" /\ resp.recomputed /\ resp.status = 200)
    => LET ss == SelectSeq(subscriptions, LAMBDA sub : sub.user_id = resp.user)
           cb == StoredRow(resp.user)[1].category_breakdown
       IN  /\ {cb[i].category : i \in DOMAIN cb} = {CategoryOf(ss[k]) : k \in DOMAIN ss}
           /\ \A i, j \in DOMAIN cb : i < j =>
                 /\ cb[i].category # cb[j].category
                 /\ FirstMet(ss, cb[i].category) < FirstMet(ss, cb[j].category)
           /\ \A i \in DOMAIN cb :
                 cb[i].total = SumCost(SelectSeq(ss,
                                  LAMBDA sub : CategoryOf(sub) = cb[i].category))

\* Health is met before Entertainment, which holds two subscriptions.
C23_Witness ==
    /\ resp.op = "analytics" /\ resp.recomputed /\ resp.status = 200
    /\ Len(subscriptions) = 3
    /\ LET cb == StoredRow(resp.user)[1].category_breakdown
       IN  /\ Len(cb) = 2
           /\ cb[1].category = "Health" /\ cb[2].category = "Entertainment"
           /\ cb[2].total = 35

\* C24: in a recomputed snapshot monthly_trend has one entry per year and
\* month of created_at of the user's subscriptions, whose total is the sum of
\* the monthly_cost of the subscriptions created in that month, in ascending
\* order of year and month (December before the January that follows it),
\* and is empty for a user with no subscription.
C24_MonthlyTrend ==
    (resp.op = "analytics" /\ resp.recomputed /\ resp.status = 200)
    => LET ss == SelectSeq(subscriptions, LAMBDA sub : sub.user_id = resp.user)
           mt == StoredRow(resp.user)[1].monthly_trend
           keys == {MonthKey(ss[k].created_at) : k \in DOMAIN ss}
           Rank(key) == 1 + Cardinality({other \in keys : other < key})
       IN  /\ Len(mt) = Cardinality(keys)
           /\ ss = <<>> => mt = <<>>
           /\ \A key \in keys :
                 /\ mt[Rank(key)].month = MonthNames[key % 100]
                 /\ mt[Rank(key)].total =
                       SumCost(SelectSeq(ss, LAMBDA sub : MonthKey(sub.created_at) = key))

\* A subscription of January is listed before one of the December before.
C24_Witness ==
    /\ resp.op = "analytics" /\ resp.recomputed /\ resp.status = 200
    /\ Len(subscriptions) >= 2
    /\ MonthKey(subscriptions[1].created_at) = 202401
    /\ MonthKey(subscriptions[2].created_at) = 202312
    /\ LET mt == StoredRow(resp.user)[1].monthly_trend
       IN  Len(mt) = 2 /\ mt[1].month = "Dec" /\ mt[2].month = "Jan"

\* C28: when an NLP endpoint answers success = FALSE, from a soft failure
\* or from a caught exception, the committed subscriptions and services are
\* those of before the request: the request has stored no subscription.
C28_FailureStoresNothing ==
    (resp.op \in NlpOps /\ resp.status = 200 /\ ~resp.success)
    => /\ ~resp.mutated
       /\ \A i \in DOMAIN subscriptions : subscriptions[i].id # resp.sub_id

\* C29: a subscription's user_id and service_id are fixed at creation: no
\* update request, by its owner or by anyone else, changes either of them.
C29_OwnerAndServiceFixed ==
    [][\A i \in DOMAIN subscriptions : \A j \in DOMAIN subscriptions' :
          subscriptions[i].id = subscriptions'[j].id =>
             /\ subscriptions'[j].user_id = subscriptions[i].user_id
             /\ subscriptions'[j].service_id = subscriptions[i].service_id]_vars

\* An update that changed a column of the row has been committed.
C29_Witness ==
    /\ resp.op = "update"
    /\ resp.request # <<>>
    /\ resp.request[1].monthly_cost # <<>>
    /\ \E i \in DOMAIN subscriptions :
          /\ subscriptions[i].id = resp.sub_id
          /\ subscriptions[i].monthly_cost = resp.request[1].monthly_cost[1]
          /\ subscriptions[i].user_id = "auth0|A"
          /\ subscriptions[i].service_id = 1

\* The rows of table subs whose user_id is v, in the table's order.
CreatedBy(subs, v) == SelectSeq(subs, LAMBDA s : s.user_id = v)

\* C30: user isolation. A row is created under its creator's user_id; the
\* list answered to a user holds only rows of that user; a snapshot written
\* for a user is the aggregate of that user's rows alone; and a request of
\* one user leaves every other user's rows and snapshot as they were.
C30_UserIsolation ==
    [][/\ \A j \in DOMAIN subscriptions' :
             (\A i \in DOMAIN subscriptions : subscriptions[i].id # subscriptions'[j].id)
                => subscriptions'[j].user_id = resp'.user
       /\ resp'.op = "list" =>
             \A i \in DOMAIN resp'.body[1] : resp'.body[1][i].user_id = resp'.user
       /\ \A r \in analytics' \ analytics :
             Body(r) = Body(Recompute(CreatedBy(subscriptions', r.user_id), services',
                                      r.user_id, now'))
       /\ \A v \in Users \ {resp'.user} :
             /\ CreatedBy(subscriptions', v) = CreatedBy(subscriptions, v)
             /\ AnalyticsRows(analytics', v) = AnalyticsRows(analytics, v)]_vars

\* Both users own a subscription and have a snapshot of it, and one of them
\* has just been answered a list.
C30_Witness ==
    /\ resp.op = "list" /\ resp.user = "auth0|A"
    /\ resp.body # <<>> /\ Len(resp.body[1]) = 1
    /\ CreatedBy(subscriptions, "auth0|B") # <<>>
    /\ \E r \in AnalyticsRows(analytics, "auth0|B") : r.service_count = 1
    /\ \E r \in AnalyticsRows(analytics, "auth0|A") : r.service_count = 1

\* C26: no two Service records have the same name, also when creates that
\* name the same unknown service overlap.
C26_ServiceNamesUnique ==
    \A i, j \in DOMAIN services : i # j => services[i].name # services[j].name

\* C27 as stated: once every mutation of a user has completed, the stored
\* snapshot is the aggregate of the user's subscriptions.
C27_SnapshotAfterWrites ==
    (inflight = <<>> /\ resp.mutated /\ resp.recomputed)
        => /\ StoredRow(resp.user) # <<>>
           /\ Body(StoredRow(resp.user)[1]) = Aggregate(resp.user)

\* C27, amended: the snapshot row is last-write-wins.  The store of a
\* mutation leaves the aggregate of the user's subscriptions when nothing
\* was committed to the subscriptions or to the row since the request read
\* them, whatever else is in flight.
C27_LastWriteWins ==
    [][\A i \in DOMAIN inflight :
          LET s == inflight[i]
          IN  (/\ s.pc = "store"
               /\ inflight' = RemoveAt(inflight, i)
               /\ resp'.recomputed
               /\ s.snap = <<Recompute(subscriptions, services, s.user, now)>>
               /\ s.found = StoredRow(s.user))
                  => \E r \in AnalyticsRows(analytics', s.user) :
                        Body(r) = Body(Recompute(subscriptions', services', s.user,
                                                 now'))]_vars

\* A mutation has stored the aggregate of the subscriptions as they are
\* while another mutation of the same user, already committed, has yet to
\* store its own.
C27_Witness ==
    /\ resp.mutated /\ resp.recomputed
    /\ Len(inflight) = 1
    /\ inflight[1].user = resp.user
    /\ inflight[1].pc = "store"
    /\ inflight[1].op # resp.op
    /\ StoredRow(resp.user) # <<>>
    /\ Body(StoredRow(resp.user)[1]) = Aggregate(resp.user)

====
